---- MODULE Spec2Model ----
(***************************************************************************)
(* A model of src/src/actor.ts: the abstract class Actor, its undo/redo    *)
(* history and its subscriber list.                                        *)
(*                                                                         *)
(* An actor is a record with the fields of the class (lines 26-34).  The   *)
(* methods are operators from an actor record to a result record           *)
(*   [actor, outcome, handled, notify]                                     *)
(* where outcome is "ok", "warn" (console.warn and return) or "throw" (an  *)
(* exception leaves the method), and notify says whether the method went   *)
(* on to notifySubscribers.  The actions below run a method and then the   *)
(* forEach loop of notifySubscribers one callback at a time, so that what  *)
(* a callback does during its own invocation (unsubscribe, subscribe,      *)
(* raise, call back into the actor) is part of the behaviour.              *)
(*                                                                         *)
(* Two specifications share the methods:                                   *)
(*   Spec      one actor, its user and its subscriber callbacks;           *)
(*   TreeSpec  a root and the actors made by createChild, whose callbacks  *)
(*             only return.                                                *)
(*                                                                         *)
(* The two functions imported from immer (line 1) are modelled by what     *)
(* the library does:                                                       *)
(*   produceWithPatches(base, recipe) returns the triple                   *)
(*       [nextState, patches, inversePatches];                             *)
(*   applyPatches(base, patches) returns the patched value ALONE (its      *)
(*       signature is applyPatches<T>(base: T, patches: Patch[]): T).      *)
(* Lines 127 and 141 destructure applyPatches' result with an array        *)
(* pattern, const [newState, newPatches] = applyPatches(...), which        *)
(* iterates the returned state.  A state that is a plain object (State     *)
(* extends Readonly<{}>, such as {count: 0}) is not iterable, and the      *)
(* statement throws a TypeError after line 126 (resp. 140) has already     *)
(* popped the checkpoint.  (An iterable value would be taken apart         *)
(* instead, its first two elements becoming newState and newPatches.)      *)
(***************************************************************************)
EXTENDS Integers, Sequences, FiniteSets, TLC

(***************************************************************************)
(* Bounds of the model.                                                    *)
(***************************************************************************)
MaxSends == 2      \* dispatches that push a checkpoint, in one run
MaxSubs  == 2      \* entries of the subscriber array
MaxDepth == 2      \* notification cycles nested by re-entrant calls
MaxCalls == 4      \* method calls made on the actors of one tree

(***************************************************************************)
(* States: plain objects such as {count: 0}, as functions from their own   *)
(* keys to values.                                                         *)
(***************************************************************************)
KeyOrder == <<"count">>

Keys == {"count"}

Put(obj, key, value) ==
    [k \in DOMAIN obj \cup {key} |-> IF k = key THEN value ELSE obj[k]]

Delete(obj, key) == [k \in DOMAIN obj \ {key} |-> obj[k]]

InitialStates == { [count |-> 0], [count |-> 1] }

Callbacks == {"f", "g"}

(***************************************************************************)
(* Messages (BaseMessage, lines 4-7).  The concrete subclass is an input:  *)
(* it recognises three message types; "unknown" is the one it rejects.     *)
(***************************************************************************)
ValidTypes == {"increment", "noop", "boom"}

MessageTypes == ValidTypes \cup {"unknown"}

Messages == [type : MessageTypes]

isMessageTypeValid(type) == type \in ValidTypes

\* The subclass's handler, run on the draft: the edited draft, or an
\* exception ("boom" edits the draft and then raises).
handleMessage(draft, message) ==
    CASE message.type = "increment" ->
           [threw |-> FALSE, draft |-> Put(draft, "count", draft["count"] + 1)]
      [] message.type = "boom" ->
           [threw |-> TRUE, draft |-> Put(draft, "count", draft["count"] + 1)]
      [] OTHER ->
           [threw |-> FALSE, draft |-> draft]

(***************************************************************************)
(* immer.  A patch is [op, path, value] (Change, lines 10-14; "remove"     *)
(* carries no value).  GeneratePatches walks the keys in order and emits,  *)
(* for every key whose value differs between from and to, the patch that   *)
(* turns from into to.                                                     *)
(***************************************************************************)
RECURSIVE GeneratePatches(_, _, _)
GeneratePatches(from, to, keys) ==
    IF keys = <<>> THEN <<>>
    ELSE LET k    == Head(keys)
             rest == GeneratePatches(from, to, Tail(keys))
         IN  CASE k \in DOMAIN from /\ k \in DOMAIN to /\ from[k] # to[k] ->
                    <<[op |-> "replace", path |-> <<k>>, value |-> to[k]]>> \o rest
               [] k \notin DOMAIN from /\ k \in DOMAIN to ->
                    <<[op |-> "add", path |-> <<k>>, value |-> to[k]]>> \o rest
               [] k \in DOMAIN from /\ k \notin DOMAIN to ->
                    <<[op |-> "remove", path |-> <<k>>]>> \o rest
               [] OTHER -> rest

\* produceWithPatches(this.state, draft => this.handleMessage(draft, message)):
\* the recipe's exception propagates and nothing is produced.
produceWithPatches(base, message) ==
    LET r == handleMessage(base, message)
    IN  IF r.threw
        THEN [threw |-> TRUE]
        ELSE [threw          |-> FALSE,
              newState       |-> r.draft,
              patches        |-> GeneratePatches(base, r.draft, KeyOrder),
              inversePatches |-> GeneratePatches(r.draft, base, KeyOrder)]

ApplyPatch(base, patch) ==
    IF patch.op = "remove"
    THEN Delete(base, patch.path[1])
    ELSE Put(base, patch.path[1], patch.value)

\* applyPatches(base, patches): the patches applied in order; the result is
\* the patched value, not a pair.
RECURSIVE applyPatches(_, _)
applyPatches(base, patches) ==
    IF patches = <<>> THEN base
    ELSE applyPatches(ApplyPatch(base, Head(patches)), Tail(patches))

\* const [newState, newPatches] = value: the array pattern iterates value.
\* The states of this model are plain objects, which have no
\* [Symbol.iterator]: the statement throws a TypeError.
DestructurePair(value) ==
    IF DOMAIN value \subseteq Keys
    THEN [threw |-> TRUE]
    ELSE [threw |-> FALSE, newState |-> value[1], newPatches |-> value[2]]

(***************************************************************************)
(* The actor (lines 26-41).                                                *)
(***************************************************************************)
\* The parent field of an actor constructed without one (line 38).  Actor
\* objects are referred to by the positive numbers 1, 2, ... in the order
\* of their construction.
NoParent == 0

NewActor(id, initialState, parent) ==
    [id          |-> id,
     parent      |-> parent,
     children    |-> <<>>,
     state       |-> initialState,
     subscribers |-> <<>>,
     history     |-> [past |-> <<>>, future |-> <<>>]]

Result(a, outcome, handled, notify) ==
    [actor |-> a, outcome |-> outcome, handled |-> handled, notify |-> notify]

\* subscribe(callback), line 54.
subscribe(a, callback) ==
    [a EXCEPT !.subscribers = Append(@, callback)]

\* The returned function with its filter's result thrown away.
unsubscribeDiscarded(a, callback) == a

\* The function subscribe returns (lines 55-59), closed over callback.
unsubscribe(a, callback) ==
    [a EXCEPT !.subscribers = SelectSeq(@, LAMBDA s : s # callback)]

\* processMessage notifying as soon as the new state is assigned, before
\* the checkpoint is pushed and future is cleared.
processMessageNotifyEarly(a, message) ==
    LET r == produceWithPatches(a.state, message)
    IN  IF r.threw
        THEN Result(a, "throw", TRUE, FALSE)
        ELSE Result([a EXCEPT !.state = r.newState], "ok", TRUE, TRUE)

\* processMessage with the two stacks taken for one another: the checkpoint
\* goes to future and past is cleared.
processMessageSwappedStacks(a, message) ==
    LET r == produceWithPatches(a.state, message)
    IN  IF r.threw
        THEN Result(a, "throw", TRUE, FALSE)
        ELSE Result([a EXCEPT
                        !.state = r.newState,
                        !.history.future =
                            Append(@, [state          |-> r.newState,
                                       inversePatches |-> r.inversePatches]),
                        !.history.past = <<>>],
                    "ok", TRUE, TRUE)

\* processMessage with the handler run on this.state itself instead of a
\* draft: the edits made before the handler raises stay.
processMessageInPlace(a, message) ==
    LET h == handleMessage(a.state, message)
        r == produceWithPatches(a.state, message)
    IN  IF h.threw
        THEN Result([a EXCEPT !.state = h.draft], "throw", TRUE, FALSE)
        ELSE Result([a EXCEPT
                        !.state = r.newState,
                        !.history.past =
                            Append(@, [state          |-> r.newState,
                                       inversePatches |-> r.inversePatches]),
                        !.history.future = <<>>],
                    "ok", TRUE, TRUE)

\* processMessage (lines 80-109), up to the call of notifySubscribers.
processMessage(a, message) ==
    LET r == produceWithPatches(a.state, message)
    IN  IF r.threw
        THEN Result(a, "throw", TRUE, FALSE)
        ELSE Result([a EXCEPT
                        !.state = r.newState,
                        !.history.past =
                            Append(@, [state          |-> r.newState,
                                       inversePatches |-> r.inversePatches]),
                        !.history.future = <<>>],
                    "ok", TRUE, TRUE)

\* sendMessage without the check of the message type.
sendMessageUnchecked(a, message) == processMessage(a, message)

\* sendMessage (lines 63-71).
sendMessage(a, message) ==
    IF ~isMessageTypeValid(message.type)
    THEN Result(a, "warn", FALSE, FALSE)
    ELSE processMessage(a, message)

\* undo without the check of lines 122-124: pop() of an empty array is
\* undefined, and destructuring undefined throws.
undoUnguarded(a) ==
    IF Len(a.history.past) = 0
    THEN Result(a, "throw", FALSE, FALSE)
    ELSE LET popped == [a EXCEPT !.history.past = SubSeq(@, 1, Len(@) - 1)]
         IN  Result(popped, "throw", FALSE, FALSE)

\* undo (lines 121-132), up to the call of notifySubscribers.
undo(a) ==
    IF Len(a.history.past) = 0
    THEN Result(a, "ok", FALSE, FALSE)
    ELSE LET top    == a.history.past[Len(a.history.past)]
             popped == [a EXCEPT !.history.past = SubSeq(@, 1, Len(@) - 1)]
             d      == DestructurePair(applyPatches(a.state, top.inversePatches))
         IN  IF d.threw
             THEN Result(popped, "throw", FALSE, FALSE)
             ELSE Result([popped EXCEPT
                             !.history.future =
                                 Append(@, [state          |-> a.state,
                                            inversePatches |-> d.newPatches]),
                             !.state = d.newState],
                         "ok", FALSE, TRUE)

\* redo (lines 135-146), up to the call of notifySubscribers.
redo(a) ==
    IF Len(a.history.future) = 0
    THEN Result(a, "ok", FALSE, FALSE)
    ELSE LET top    == a.history.future[Len(a.history.future)]
             popped == [a EXCEPT !.history.future = SubSeq(@, 1, Len(@) - 1)]
             d      == DestructurePair(applyPatches(a.state, top.inversePatches))
         IN  IF d.threw
             THEN Result(popped, "throw", FALSE, FALSE)
             ELSE Result([popped EXCEPT
                             !.history.past =
                                 Append(@, [state          |-> a.state,
                                            inversePatches |-> d.newPatches]),
                             !.state = d.newState],
                         "ok", FALSE, TRUE)

\* getId(), lines 156-158.
getId(a) == a.id

\* getParent(), lines 161-163.
getParent(a) == a.parent

\* createChild with the child left out of this.children.
createChildUnlisted(a, this, fresh, id, initialState) ==
    [actor |-> a, child |-> NewActor(id, initialState, this)]

\* createChild(id, initialState), lines 149-153, called on the object `this`
\* whose fields are a; fresh is the object that `new` makes.
createChild(a, this, fresh, id, initialState) ==
    [actor |-> [a EXCEPT !.children = Append(@, fresh)],
     child |-> NewActor(id, initialState, this)]

(***************************************************************************)
(* The running program.                                                    *)
(*   actor        the actor object                                         *)
(*   unsubs       for each callback, the function that the first           *)
(*                subscribe of it returned and the user kept: "none",      *)
(*                "fresh" (never called) or "used" (called before).  The   *)
(*                functions returned for one callback all do the same.     *)
(*   stack        the forEach loops of notifySubscribers in progress, the  *)
(*                innermost last: the array each one iterates and how many *)
(*                of its entries it has invoked                            *)
(* and what an observer of the run has seen:                               *)
(*   initialState the state the constructor was given                      *)
(*   sends        the number of dispatches that pushed a checkpoint        *)
(*   last         the latest call made by the actor's user: the actor      *)
(*                before the call (pre), the actor when the method's own   *)
(*                updates were done (post), how the call ended, and the    *)
(*                callbacks its forEach loop invoked                       *)
(*   prev         when the latest call is redo(), the call before it       *)
(*   rt           counts a run of dispatches followed by undos             *)
(*   cyc          counts a run of undos followed by redos                  *)
(*   tl           the linear timeline and cursor that the calls made by    *)
(*                the user describe, while no callback has called          *)
(*                sendMessage, undo or redo                                *)
(*   gone         the callbacks that called their own unsubscribe          *)
(*                function while being invoked, until subscribed again     *)
(*   removed      the callbacks whose unsubscribe function has been        *)
(*                called, until subscribed again                           *)
(*   ev           the callback invocation made by the latest step          *)
(*   unsubEv      the unsubscribe call made by the latest step             *)
(* A tree of actors, whose callbacks only return:                          *)
(*   tree         the actor objects, in the order of their construction;   *)
(*                the first one is the root                                *)
(*   calls        the number of method calls made on them                  *)
(*   treeEv       the call made by the latest step on an actor of the      *)
(*                tree, and the callbacks it invoked                       *)
(***************************************************************************)
VARIABLES actor, unsubs, stack, initialState, sends, last, prev, rt, cyc,
          tl, gone, removed, ev, unsubEv, tree, calls, treeEv

vars == <<actor, unsubs, stack, initialState, sends, last, prev, rt, cyc,
          tl, gone, removed, ev, unsubEv, tree, calls, treeEv>>

\* The variables of the run of one actor with its callbacks.
actorVars == <<actor, unsubs, stack, initialState, sends, last, prev, rt,
               cyc, tl, gone, removed, ev, unsubEv>>

treeVars == <<tree, calls, treeEv>>

NoEvent == [kind |-> "none"]

RtBroken == [ok |-> FALSE, sends |-> 0, undos |-> 0]

CycIdle == [phase |-> "idle"]

CallRecord(op, type, pre, post, outcome, error, handled) ==
    [op |-> op, type |-> type, pre |-> pre, post |-> post, outcome |-> outcome,
     error |-> error, handled |-> handled, notified |-> <<>>,
     reentered |-> FALSE]

NoCall == [op |-> "none"]

TlBroken == [ok |-> FALSE, t |-> <<>>, p |-> 0]

\* The timeline after a dispatch of message, after undo and after redo:
\* t[p + 1] is the state at the cursor p, counted from 0.
TlDispatch(line, message) ==
    LET h == handleMessage(line.t[line.p + 1], message)
    IN  IF ~line.ok \/ ~isMessageTypeValid(message.type) \/ h.threw THEN line
        ELSE [line EXCEPT !.t = Append(SubSeq(@, 1, line.p + 1), h.draft),
                          !.p = @ + 1]

TlUndo(line) ==
    IF line.ok /\ line.p > 0 THEN [line EXCEPT !.p = @ - 1] ELSE line

TlRedo(line) ==
    IF line.ok /\ line.p + 1 < Len(line.t) THEN [line EXCEPT !.p = @ + 1] ELSE line

\* What is kept of the call before a redo().
Summary(call) ==
    [op        |-> call.op,
     outcome   |-> call.outcome,
     committed |-> call.handled /\ call.error # "method",
     state     |-> call.pre.state,
     pastLen   |-> Len(call.pre.history.past)]

Init ==
    /\ initialState \in InitialStates
    /\ actor = NewActor("root", initialState, NoParent)
    /\ unsubs = [c \in Callbacks |-> "none"]
    /\ sends = 0
    /\ stack = <<>>
    /\ last = CallRecord("new", "none", actor, actor, "ok", "none", FALSE)
    /\ prev = NoCall
    /\ rt = [ok |-> TRUE, sends |-> 0, undos |-> 0]
    /\ cyc = CycIdle
    /\ tl = [ok |-> TRUE, t |-> <<initialState>>, p |-> 0]
    /\ gone = {}
    /\ removed = {}
    /\ ev = NoEvent
    /\ unsubEv = NoEvent
    /\ tree = <<actor>>
    /\ calls = 0
    /\ treeEv = [op |-> "none"]

Reverse(seq) == [i \in 1..Len(seq) |-> seq[Len(seq) + 1 - i]]

\* notifySubscribers visiting the array from its end.
notifySubscribersReversed(a) == [subs |-> Reverse(a.subscribers), done |-> 0]

\* notifySubscribers (lines 116-118): forEach takes the array that
\* this.subscribers holds when the loop starts.
notifySubscribers(a) == [subs |-> a.subscribers, done |-> 0]

\* A loop of notifySubscribers that starts now, with what its observer
\* notes: the callbacks that are unsubscribed at this moment.
Cycle(a, barred) == notifySubscribers(a) @@ [barred |-> barred]

\* The loops that have visited their whole array return, innermost first.
RECURSIVE Unwind(_)
Unwind(stk) ==
    IF stk # <<>> /\ stk[Len(stk)].done = Len(stk[Len(stk)].subs)
    THEN Unwind(SubSeq(stk, 1, Len(stk) - 1))
    ELSE stk

\* notifySubscribers catching what a callback raises and going on with the
\* next entry.
RaiseCaught(stk) == Unwind(stk)

\* A callback raises while the loops stk are in progress: neither
\* notifySubscribers (lines 116-118) nor its callers (lines 108, 131, 145)
\* catch, so every loop ends and the exception reaches the user's call.
Raise(stk) == <<>>

Idle == stack = <<>>

\* The dispatches the model makes are bounded in number.
CanSend == sends < MaxSends

Sent(r) == sends' = IF r.handled /\ r.outcome = "ok" THEN sends + 1 ELSE sends

\* The user calls a method whose own part has the result r.
Call(op, type, r) ==
    /\ actor' = r.actor
    /\ stack' = IF r.notify THEN Unwind(<<Cycle(r.actor, removed)>>) ELSE <<>>
    /\ prev' = IF op = "redo" THEN Summary(last) ELSE NoCall
    /\ last' = CallRecord(op, type, actor, r.actor,
                          IF r.notify /\ r.actor.subscribers # <<>>
                          THEN "running" ELSE r.outcome,
                          IF r.outcome = "throw" THEN "method" ELSE "none",
                          r.handled)
    /\ ev' = NoEvent
    /\ unsubEv' = NoEvent
    /\ UNCHANGED treeVars

SendMessage ==
    /\ Idle
    /\ \E m \in Messages :
          /\ CanSend
          /\ LET r == sendMessage(actor, m)
             IN  /\ Call("send", m.type, r)
                 /\ Sent(r)
                 /\ rt' = IF rt.ok /\ rt.undos = 0 /\ r.handled /\ r.outcome = "ok"
                          THEN [rt EXCEPT !.sends = @ + 1]
                          ELSE RtBroken
                 /\ tl' = TlDispatch(tl, m)
    /\ cyc' = CycIdle
    /\ UNCHANGED <<unsubs, initialState, gone, removed>>

Undo ==
    /\ Idle
    /\ Call("undo", "none", undo(actor))
    /\ rt' = IF rt.ok /\ rt.undos < rt.sends
             THEN [rt EXCEPT !.undos = @ + 1]
             ELSE RtBroken
    /\ cyc' = IF Len(actor.history.past) = 0 THEN CycIdle
              ELSE IF cyc.phase = "undo" THEN [cyc EXCEPT !.undos = @ + 1]
              ELSE [phase |-> "undo", undos |-> 1, redos |-> 0,
                    base |-> [state |-> actor.state, history |-> actor.history]]
    /\ tl' = TlUndo(tl)
    /\ UNCHANGED <<unsubs, initialState, sends, gone, removed>>

Redo ==
    /\ Idle
    /\ Call("redo", "none", redo(actor))
    /\ rt' = RtBroken
    /\ cyc' = IF cyc.phase = "idle" THEN CycIdle
              ELSE IF cyc.redos < cyc.undos
              THEN [cyc EXCEPT !.phase = "redo", !.redos = @ + 1]
              ELSE CycIdle
    /\ tl' = TlRedo(tl)
    /\ UNCHANGED <<unsubs, initialState, sends, gone, removed>>

\* What a call of subscribe / of a returned function does to the program.
DoSubscribe(c) ==
    /\ Len(actor.subscribers) < MaxSubs
    /\ actor' = subscribe(actor, c)
    /\ unsubs' = [unsubs EXCEPT ![c] = IF @ = "none" THEN "fresh" ELSE @]
    /\ removed' = removed \ {c}

DoUnsubscribe(c) ==
    /\ unsubs[c] # "none"
    /\ actor' = unsubscribe(actor, c)
    /\ unsubs' = [unsubs EXCEPT ![c] = "used"]
    /\ removed' = removed \cup {c}
    /\ unsubEv' = [kind   |-> "unsubscribe",
                   callback |-> c,
                   again  |-> unsubs[c] = "used",
                   before |-> actor.subscribers,
                   after  |-> actor'.subscribers]

Subscribe ==
    /\ Idle
    /\ \E c \in Callbacks :
          /\ DoSubscribe(c)
          /\ gone' = gone \ {c}
    /\ prev' = NoCall
    /\ last' = CallRecord("subscribe", "none", actor, actor', "ok", "none", FALSE)
    /\ ev' = NoEvent
    /\ unsubEv' = NoEvent
    /\ UNCHANGED <<stack, initialState, sends, rt, cyc, tl, treeVars>>

Unsubscribe ==
    /\ Idle
    /\ \E c \in Callbacks : DoUnsubscribe(c)
    /\ prev' = NoCall
    /\ last' = CallRecord("unsubscribe", "none", actor, actor', "ok", "none", FALSE)
    /\ ev' = NoEvent
    /\ UNCHANGED <<stack, initialState, sends, rt, cyc, tl, gone, treeVars>>

(***************************************************************************)
(* One step of the innermost forEach loop: the next callback of its array  *)
(* is invoked with this.state (line 117) and does one thing before it      *)
(* returns.  An exception that leaves a callback is not caught by the      *)
(* actor: it ends every loop in progress and reaches the user's call.      *)
(***************************************************************************)
Top == stack[Len(stack)]

Current == Top.subs[Top.done + 1]

\* The stack with the current callback's invocation recorded.
Entered ==
    [stack EXCEPT ![Len(stack)].done = @ + 1]

\* The argument with the state that the user's call produced, taken once
\* when its loop started.
ArgumentCaptured(a) == last.post.state

\* The argument of an invocation, line 117: the arrow function reads
\* this.state each time forEach calls it.
Argument(a) == a.state

Invoked ==
    /\ ~Idle
    /\ ev' = [kind |-> "invoke", callback |-> Current, arg |-> Argument(actor),
              current |-> actor.state,
              afterOwnUnsubscribe |-> Current \in gone,
              barred |-> Top.barred]
    /\ prev' = prev
    /\ initialState' = initialState
    /\ UNCHANGED treeVars

\* The user's call as the callback's step leaves it.
Observed(threw, reentered) ==
    last' = [last EXCEPT
               !.notified  = IF Len(stack) = 1
                             THEN Append(@, <<Current, Argument(actor)>>) ELSE @,
               !.outcome   = IF threw THEN "throw"
                             ELSE IF stack' = <<>> THEN "ok" ELSE "running",
               !.error     = IF threw THEN "subscriber" ELSE @,
               !.reentered = @ \/ reentered]

CallbackReturns ==
    /\ Invoked
    /\ stack' = Unwind(Entered)
    /\ Observed(FALSE, FALSE)
    /\ unsubEv' = NoEvent
    /\ UNCHANGED <<actor, unsubs, sends, rt, cyc, tl, gone, removed>>

CallbackUnsubscribes ==
    /\ Invoked
    /\ \E c \in Callbacks :
          /\ DoUnsubscribe(c)
          /\ gone' = IF c = Current THEN gone \cup {Current} ELSE gone
    /\ stack' = Unwind(Entered)
    /\ Observed(FALSE, FALSE)
    /\ UNCHANGED <<sends, rt, cyc, tl>>

CallbackSubscribes ==
    /\ Invoked
    /\ \E c \in Callbacks :
          /\ DoSubscribe(c)
          /\ gone' = gone \ {c}
    /\ stack' = Unwind(Entered)
    /\ Observed(FALSE, FALSE)
    /\ unsubEv' = NoEvent
    /\ UNCHANGED <<sends, rt, cyc, tl>>

CallbackRaises ==
    /\ Invoked
    /\ stack' = Raise(Entered)
    /\ Observed(TRUE, FALSE)
    /\ unsubEv' = NoEvent
    /\ UNCHANGED <<actor, unsubs, sends, rt, cyc, tl, gone, removed>>

\* The callback calls a method of the actor it was invoked by; the method's
\* own part has the result r.
Reenter(r) ==
    /\ Invoked
    /\ Sent(r)
    /\ Len(stack) < MaxDepth
    /\ actor' = r.actor
    /\ stack' = IF r.outcome = "throw" THEN Raise(Entered)
                ELSE IF r.notify
                THEN Unwind(Append(Entered, Cycle(r.actor, removed)))
                ELSE Unwind(Entered)
    /\ Observed(r.outcome = "throw", TRUE)
    /\ rt' = RtBroken
    /\ cyc' = CycIdle
    /\ tl' = TlBroken
    /\ unsubEv' = NoEvent
    /\ UNCHANGED <<unsubs, gone, removed>>

CallbackSends ==
    \E m \in Messages : CanSend /\ Reenter(sendMessage(actor, m))

CallbackUndoes == Reenter(undo(actor))

CallbackRedoes == Reenter(redo(actor))

Next ==
    \/ SendMessage
    \/ Undo
    \/ Redo
    \/ Subscribe
    \/ Unsubscribe
    \/ CallbackReturns
    \/ CallbackUnsubscribes
    \/ CallbackSubscribes
    \/ CallbackRaises
    \/ CallbackSends
    \/ CallbackUndoes
    \/ CallbackRedoes

Spec == Init /\ [][Next]_vars

(***************************************************************************)
(* Several actors.  A method called on the object r updates the fields of  *)
(* r (`this`) and runs the forEach loop of r; the callbacks return without *)
(* calling anything.                                                       *)
(***************************************************************************)
ChildIds == {"a", "b"}

\* A method's assignments reaching the children of `this` as well.
AssignShared(t, r, a) ==
    [i \in DOMAIN t |->
        IF i = r THEN a
        ELSE IF t[i].parent = r
        THEN [t[i] EXCEPT !.state = a.state, !.history = a.history]
        ELSE t[i]]

\* The objects after a method called on r has left a in the fields of r:
\* every assignment of the class is to a field of `this` (lines 54, 56, 96,
\* 103, 106, 126, 140, 151).
Assign(t, r, a) == [t EXCEPT ![r] = a]

\* The callbacks a forEach loop of r invokes, with the object whose
\* subscriber array holds them (line 117: this.subscribers).
Notified(r, res) ==
    IF res.notify
    THEN [i \in 1..Len(res.actor.subscribers) |-> <<r, res.actor.subscribers[i]>>]
    ELSE <<>>

\* The calls the model makes on a tree are bounded in number.
Called ==
    /\ calls < MaxCalls
    /\ calls' = calls + 1
    /\ UNCHANGED actorVars

TreeCall(op, r, res) ==
    /\ Called
    /\ tree' = Assign(tree, r, res.actor)
    /\ treeEv' = [op |-> op, on |-> r, notified |-> Notified(r, res)]

TreeCreateChild ==
    \E r \in DOMAIN tree, id \in ChildIds, s \in InitialStates :
       /\ Called
       /\ LET fresh == Len(tree) + 1
              c == createChild(tree[r], r, fresh, id, s)
          IN  /\ tree' = Append(Assign(tree, r, c.actor), c.child)
              /\ treeEv' = [op |-> "createChild", on |-> r, notified |-> <<>>,
                            id |-> id, initialState |-> s, child |-> fresh]

TreeSendMessage ==
    \E r \in DOMAIN tree, m \in Messages :
       TreeCall("send", r, sendMessage(tree[r], m))

TreeUndo ==
    \E r \in DOMAIN tree : TreeCall("undo", r, undo(tree[r]))

TreeRedo ==
    \E r \in DOMAIN tree : TreeCall("redo", r, redo(tree[r]))

TreeSubscribe ==
    \E r \in DOMAIN tree, c \in Callbacks :
       TreeCall("subscribe", r, Result(subscribe(tree[r], c), "ok", FALSE, FALSE))

\* A function that subscribe returned on r is called.
TreeUnsubscribe ==
    \E r \in DOMAIN tree, c \in Callbacks :
       /\ \E i \in DOMAIN tree[r].subscribers : tree[r].subscribers[i] = c
       /\ TreeCall("unsubscribe", r, Result(unsubscribe(tree[r], c), "ok", FALSE, FALSE))

TreeNext ==
    \/ TreeCreateChild
    \/ TreeSendMessage
    \/ TreeUndo
    \/ TreeRedo
    \/ TreeSubscribe
    \/ TreeUnsubscribe

TreeSpec == Init /\ [][TreeNext]_vars
(***************************************************************************)
(* Properties.                                                             *)
(***************************************************************************)
Dispatched(call) == call.op = "send" /\ call.handled /\ call.error # "method"

\* The notifications a dispatch owes: every entry of the subscriber array
\* the call found, in order, each with the state the dispatch produced.
FanOut(call) ==
    [i \in 1..Len(call.pre.subscribers) |->
        <<call.pre.subscribers[i], call.post.state>>]

IsPrefix(s, t) == Len(s) <= Len(t) /\ s = SubSeq(t, 1, Len(s))

\* C1: after n dispatches of valid messages whose handlers do not raise, made
\* on a fresh actor, and then n calls of undo, the state equals the initial
\* state and past is empty.
C1_RoundTrip ==
    (Idle /\ rt.ok /\ rt.undos = rt.sends)
        => (actor.state = initialState /\ actor.history.past = <<>>)

C4_UnknownMessageInert ==
    (last.op = "send" /\ ~isMessageTypeValid(last.type))
        => /\ Idle
           /\ last.outcome = "warn"
           /\ ~last.handled
           /\ last.notified = <<>>
           /\ actor = last.pre

C4_Witness ==
    /\ last.op = "send" /\ last.type = "unknown"
    /\ actor.subscribers # <<>>
    /\ actor.history.past # <<>>
    /\ actor.state # initialState

\* C5: when handleMessage raises, the error reaches the caller of
\* sendMessage and the actor is as before the call: same state, no
\* checkpoint pushed, future not cleared, no subscriber invoked.
C5_MutationFailureAtomic ==
    (last.op = "send" /\ last.handled /\ last.error = "method")
        => /\ Idle
           /\ last.outcome = "throw"
           /\ last.notified = <<>>
           /\ actor = last.pre

C5_Witness ==
    /\ last.op = "send" /\ last.type = "boom" /\ last.outcome = "throw"
    /\ actor.subscribers # <<>>
    /\ actor.history.past # <<>>

\* C6: undo() with an empty past and redo() with an empty future raise
\* nothing, invoke no subscriber and leave state, past and future unchanged.
C6_EmptyHistoryNoOp ==
    ( \/ last.op = "undo" /\ last.pre.history.past = <<>>
      \/ last.op = "redo" /\ last.pre.history.future = <<>> )
        => /\ Idle
           /\ last.outcome = "ok"
           /\ last.notified = <<>>
           /\ actor = last.pre

C6_Witness ==
    /\ last.op = "redo" /\ last.pre.history.future = <<>>
    /\ prev.op = "undo" /\ prev.pastLen = 0
    /\ actor.subscribers # <<>>
    /\ actor.state # initialState

\* C7: n calls of undo() (1 <= n <= past.length) followed by n calls of
\* redo() restore the state and the contents of both stacks that were
\* present before the first undo.
C7_UndoRedoLossFree ==
    (Idle /\ cyc.phase = "redo" /\ cyc.redos = cyc.undos)
        => /\ actor.state = cyc.base.state
           /\ actor.history = cyc.base.history

C9_UnsubscribeSafety ==
    ev.kind = "invoke" => ~ev.afterOwnUnsubscribe

\* C10: a call of an unsubscribe function that was called before leaves the
\* subscriber list unchanged.
C10_UnsubscribeIdempotent ==
    (unsubEv.kind = "unsubscribe" /\ unsubEv.again)
        => unsubEv.after = unsubEv.before

\* C11: a callback whose unsubscribe function had been called (from outside
\* or from inside a callback, its own or another) when a notification cycle
\* started is not invoked in that cycle, unless it was subscribed again
\* before the cycle started; the call removes that callback only and leaves
\* the other subscribers in their order.
C11_UnsubscribeTakesEffect ==
    /\ ev.kind = "invoke" => ev.callback \notin ev.barred
    /\ unsubEv.kind = "unsubscribe"
          => unsubEv.after =
               SelectSeq(unsubEv.before, LAMBDA s : s # unsubEv.callback)

C11_Witness ==
    /\ ev.kind = "invoke"
    /\ gone \cap ev.barred # {}
    /\ Len(last.pre.subscribers) = 1
    /\ Dispatched(last)

\* C12: a step that is a call createChild(id, initialState) on an actor
\* makes one new actor whose getId() is id, whose getParent() is the calling
\* actor, whose state is initialState and whose past, future, subscribers
\* and children are empty; the caller's children are the earlier children
\* in their order followed by the new actor, the caller's other fields and
\* all other actors are as before.
C12_CreateChild ==
    [][ treeEv'.op = "createChild"
          => LET p == treeEv'.on
                 c == treeEv'.child
             IN  /\ DOMAIN tree' = DOMAIN tree \cup {c}
                 /\ c \notin DOMAIN tree
                 /\ getId(tree'[c]) = treeEv'.id
                 /\ getParent(tree'[c]) = p
                 /\ tree'[c].state = treeEv'.initialState
                 /\ tree'[c].history = [past |-> <<>>, future |-> <<>>]
                 /\ tree'[c].subscribers = <<>>
                 /\ tree'[c].children = <<>>
                 /\ tree'[p] = [tree[p] EXCEPT !.children = Append(@, c)]
                 /\ \A r \in DOMAIN tree \ {p} : tree'[r] = tree[r]
                 /\ treeEv'.notified = <<>> ]_vars

C12_Witness ==
    /\ treeEv.op = "createChild"
    /\ Len(tree[treeEv.on].children) = 2
    /\ tree[treeEv.on].subscribers # <<>>
    /\ tree[treeEv.on].history.past # <<>>
    /\ tree[treeEv.on].state # tree[treeEv.child].state

\* C13: a step that is a call of sendMessage, undo, redo, subscribe or of an
\* unsubscribe function on one actor of a tree leaves the state, past,
\* future and subscriber list of every other actor as they were, and the
\* callbacks it invokes are the ones of the called actor's own subscriber
\* array.
C13_Isolation ==
    [][ treeEv'.op \in {"send", "undo", "redo", "subscribe", "unsubscribe"}
          => LET r == treeEv'.on
             IN  /\ DOMAIN tree' = DOMAIN tree
                 /\ \A o \in DOMAIN tree \ {r} :
                        /\ tree'[o].state = tree[o].state
                        /\ tree'[o].history = tree[o].history
                        /\ tree'[o].subscribers = tree[o].subscribers
                 /\ Len(treeEv'.notified) \in {0, Len(tree'[r].subscribers)}
                 /\ \A i \in DOMAIN treeEv'.notified :
                        treeEv'.notified[i] = <<r, tree'[r].subscribers[i]>> ]_vars

C13_Witness ==
    /\ treeEv.op = "send"
    /\ treeEv.notified # <<>>
    /\ tree[treeEv.on].history.past # <<>>
    /\ \E o \in DOMAIN tree :
          /\ getParent(tree[o]) = treeEv.on
          /\ tree[o].subscribers # <<>>
          /\ tree[o].state # tree[treeEv.on].state

\* C14: between operations, if past is not empty the state field of its top
\* checkpoint is the actor's current state, and the patches of every
\* checkpoint, applied to the state it records, give the state before its
\* transition, which is the state the checkpoint below it records.
C14_CheckpointInvariant ==
    (Idle /\ actor.history.past # <<>>)
        => LET past == actor.history.past
           IN  /\ past[Len(past)].state = actor.state
               /\ \A i \in 2..Len(past) :
                      applyPatches(past[i].state, past[i].inversePatches)
                         = past[i - 1].state

\* One entry moved from the top of stack `from` to the top of stack `to`,
\* the other entries of both left as they were.
Moved(from, to, fromAfter, toAfter) ==
    /\ fromAfter = SubSeq(from, 1, Len(from) - 1)
    /\ Len(toAfter) = Len(to) + 1
    /\ SubSeq(toAfter, 1, Len(to)) = to

\* C15: a successful dispatch pushes one checkpoint onto past and removes
\* none; undo() with a non-empty past pops one checkpoint from past and
\* pushes one onto future, redo() with a non-empty future does the reverse,
\* the other entries untouched; after k successful dispatches on a fresh
\* actor and then j <= k undos, past.length = k - j and future.length = j.
C15_StackDiscipline ==
    /\ Dispatched(last)
          => /\ Len(last.post.history.past) = Len(last.pre.history.past) + 1
             /\ IsPrefix(last.pre.history.past, last.post.history.past)
    /\ (last.op = "undo" /\ last.pre.history.past # <<>>)
          => Moved(last.pre.history.past, last.pre.history.future,
                   last.post.history.past, last.post.history.future)
    /\ (last.op = "redo" /\ last.pre.history.future # <<>>)
          => Moved(last.pre.history.future, last.pre.history.past,
                   last.post.history.future, last.post.history.past)
    /\ (Idle /\ rt.ok)
          => /\ Len(actor.history.past) = rt.sends - rt.undos
             /\ Len(actor.history.future) = rt.undos

\* C16: between operations the actor is at the cursor of the timeline:
\* k = past.length + future.length, p = past.length and the current state is
\* t[p], where a successful dispatch replaces the timeline by t[0..p]
\* followed by handleMessage applied to t[p], undo moves the cursor to
\* p - 1 and redo to p + 1; the patches on top of past map t[p] to t[p - 1]
\* and those on top of future map t[p] to t[p + 1].
C16_LinearTimeline ==
    (Idle /\ tl.ok)
        => LET past == actor.history.past
               future == actor.history.future
               at(i) == tl.t[i + 1]
           IN  /\ Len(tl.t) - 1 = Len(past) + Len(future)
               /\ tl.p = Len(past)
               /\ actor.state = at(tl.p)
               /\ past # <<>>
                     => applyPatches(at(tl.p), past[Len(past)].inversePatches)
                          = at(tl.p - 1)
               /\ future # <<>>
                     => applyPatches(at(tl.p), future[Len(future)].inversePatches)
                          = at(tl.p + 1)

\* The first callback of the forEach loop of the user's call is about to
\* be invoked.
FirstSubscriberNext == Len(stack) = 1 /\ stack[1].done = 0

\* C17: while the subscribers of a sendMessage, undo or redo are being
\* invoked (and none has called the actor back), state, past and future
\* are what the operation made them before the first invocation; when the
\* first subscriber of a dispatch runs, the state is the new state, the new
\* checkpoint is on top of past and future is empty.
C17_NotifyAfterCommit ==
    /\ (~Idle /\ ~last.reentered)
          => /\ last.op \in {"send", "undo", "redo"}
             /\ actor.state = last.post.state
             /\ actor.history = last.post.history
    /\ (FirstSubscriberNext /\ Dispatched(last))
          => LET past == actor.history.past
                 new == handleMessage(last.pre.state, [type |-> last.type]).draft
             IN  /\ actor.state = new
                 /\ Len(past) = Len(last.pre.history.past) + 1
                 /\ IsPrefix(last.pre.history.past, past)
                 /\ past[Len(past)].state = new
                 /\ applyPatches(new, past[Len(past)].inversePatches)
                       = last.pre.state
                 /\ actor.history.future = <<>>

C17_Witness ==
    /\ FirstSubscriberNext
    /\ Dispatched(last)
    /\ Len(stack[1].subs) = 2
    /\ last.pre.history.past # <<>>
    /\ actor.state # last.pre.state

\* The notifications an undo() or redo() that takes the checkpoint top
\* owes: every entry of the subscriber array the call found, in order, each
\* with the state that top's patches make of the state before the call.
Replayed(call, top) ==
    [i \in 1..Len(call.pre.subscribers) |->
        <<call.pre.subscribers[i],
          applyPatches(call.pre.state, top.inversePatches)>>]

\* C18: when an undo() with a non-empty past or a redo() with a non-empty
\* future is over (no subscriber having raised or called the actor back),
\* each registered subscriber has been invoked once, in registration order,
\* with the restored (advanced) state, and neither isMessageTypeValid nor
\* handleMessage was called.
C18_UndoRedoNotify ==
    (Idle /\ ~last.reentered /\ last.error # "subscriber")
        => LET past == last.pre.history.past
               future == last.pre.history.future
           IN  /\ (last.op = "undo" /\ past # <<>>)
                     => /\ last.notified = Replayed(last, past[Len(past)])
                        /\ ~last.handled
               /\ (last.op = "redo" /\ future # <<>>)
                     => /\ last.notified = Replayed(last, future[Len(future)])
                        /\ ~last.handled

\* C19: the value passed to a subscriber callback is the actor's state at
\* the moment of the invocation, also when an earlier subscriber of the
\* same cycle has called sendMessage, undo or redo on the actor.
C19_NoStaleSnapshot ==
    ev.kind = "invoke" => ev.arg = ev.current

C19_Witness ==
    /\ Idle
    /\ ev.kind = "invoke"
    /\ last.reentered
    /\ Len(last.notified) = 2
    /\ last.notified[2] = <<ev.callback, ev.arg>>
    /\ ev.arg # last.post.state

\* C20: when a subscriber callback raises during the notification of a
\* sendMessage, undo or redo, the call ends with that error and no loop goes
\* on; if no callback has called the actor back, the state and the stacks
\* stay as the operation left them (for a dispatch: new state, one more
\* checkpoint, future empty) and the invocations made are the first ones
\* owed, the subscribers after the raising one getting none.
C20_RaisingSubscriber ==
    last.error = "subscriber"
        => /\ last.op \in {"send", "undo", "redo"}
           /\ Idle
           /\ last.outcome = "throw"
           /\ last.notified # <<>>
           /\ ~last.reentered
                 => /\ actor.state = last.post.state
                    /\ actor.history = last.post.history
                    /\ IsPrefix(last.notified, FanOut(last))
           /\ (~last.reentered /\ Dispatched(last))
                 => /\ actor.state
                         = handleMessage(last.pre.state, [type |-> last.type]).draft
                    /\ Len(actor.history.past) = Len(last.pre.history.past) + 1
                    /\ actor.history.future = <<>>

C20_Witness ==
    /\ last.error = "subscriber"
    /\ ~last.reentered
    /\ Dispatched(last)
    /\ Len(last.notified) = 1
    /\ Len(last.pre.subscribers) = 2
    /\ actor.state # last.pre.state
====
